---- MODULE Spec2Model ----
(***************************************************************************)
(* Model of markdown-blockquote-formatter (src/src/lib.rs).                *)
(*                                                                         *)
(* A Blockquote holds a borrowed &str and three configuration values.      *)
(* Display::fmt walks the characters of the text, writes "> " at the       *)
(* start of each line, stops at the soft / hard limit and may append an    *)
(* ellipsis.                                                               *)
(*                                                                         *)
(* A &str is a sequence of UTF-8 bytes, a char is a Unicode scalar value   *)
(* (an integer).  The text is kept as bytes, `chars()` decodes it, and     *)
(* `str::get(index..)` slices it by BYTE offset, as the standard library   *)
(* does.  The sink receives one fragment (a byte sequence) per write_str   *)
(* call.                                                                   *)
(***************************************************************************)
EXTENDS Integers, Sequences, FiniteSets, TLC

\* ---------------------------------------------------------------- bounds
\* Longest input text, in characters.
MaxLen == 3
\* Largest "small" value given to soft_limit / hard_limit by the builders.
MaxLimit == 3
\* Width of usize in the model (the real width, 64, is beyond TLC's integers).
UsizeBits == 4

USIZE_MAX == 2^UsizeBits - 1

\* ------------------------------------------------------------- constants
\* const BLOCKQUOTE_LINE: &str = "> ";   as UTF-8 bytes
BLOCKQUOTE_LINE == <<62, 32>>
\* const ELLIPSIS: char = U+2026 (horizontal ellipsis)
ELLIPSIS == 8230
\* const NEWLINE: char = '\n';
NEWLINE == 10

\* Characters the input texts are built from:
\* '\n', ' ', 'a', U+00A0 (no-break space: whitespace, 2 bytes), U+00E9 (e acute: 2 bytes).
Alphabet == {10, 32, 97, 160, 233}

\* Option<T>: None is <<>>, Some(x) is <<x>>.
None == <<>>
Some(x) == <<x>>

\* ------------------------------------------------------ core / std helpers
\* char::is_whitespace: the code points with the White_Space property.
is_whitespace(c) ==
    \/ c \in 9..13
    \/ c \in {32, 133, 160, 5760, 8232, 8233, 8239, 8287, 12288}
    \/ c \in 8192..8202

\* char::len_utf8
len_utf8(c) == IF c < 128 THEN 1 ELSE IF c < 2048 THEN 2 ELSE IF c < 65536 THEN 3 ELSE 4

\* char::encode_utf8 (code points below 0x10000 suffice for the model).
encode_utf8(c) ==
    IF c < 128 THEN <<c>>
    ELSE IF c < 2048 THEN <<192 + (c \div 64), 128 + (c % 64)>>
    ELSE <<224 + (c \div 4096), 128 + ((c \div 64) % 64), 128 + (c % 64)>>

\* Width of the UTF-8 sequence that starts with lead byte b.
utf8_char_width(b) == IF b < 128 THEN 1 ELSE IF b < 224 THEN 2 ELSE IF b < 240 THEN 3 ELSE 4

\* Decode the first character of a non-empty, valid UTF-8 byte sequence.
next_code_point(s) ==
    LET b == s[1] IN
    IF b < 128 THEN b
    ELSE IF b < 224 THEN (b - 192) * 64 + (s[2] - 128)
    ELSE (b - 224) * 4096 + (s[2] - 128) * 64 + (s[3] - 128)

\* Drop the first n elements of a sequence.
Skip(s, n) == SubSeq(s, n + 1, Len(s))

\* str::chars, collected: the characters of a valid UTF-8 byte sequence.
RECURSIVE Chars(_)
Chars(s) ==
    IF s = <<>> THEN <<>>
    ELSE <<next_code_point(s)>> \o Chars(Skip(s, utf8_char_width(s[1])))

\* The UTF-8 bytes of a sequence of characters (how a &str literal is stored).
RECURSIVE Utf8(_)
Utf8(cs) == IF cs = <<>> THEN <<>> ELSE encode_utf8(Head(cs)) \o Utf8(Tail(cs))

\* str::is_char_boundary
is_char_boundary(s, i) ==
    \/ i = 0
    \/ i = Len(s)
    \/ i < Len(s) /\ ~(s[i + 1] \in 128..191)

\* str::get(index..): a BYTE-offset slice; None off a char boundary or past the end.
get_from(s, i) ==
    IF i <= Len(s) /\ is_char_boundary(s, i) THEN Some(Skip(s, i)) ELSE None

\* str::trim_end
RECURSIVE trim_end_chars(_)
trim_end_chars(cs) ==
    IF cs # <<>> /\ is_whitespace(cs[Len(cs)])
    THEN trim_end_chars(SubSeq(cs, 1, Len(cs) - 1))
    ELSE cs

trim_end(s) == Utf8(trim_end_chars(Chars(s)))

\* str::trim_start
RECURSIVE trim_start_chars(_)
trim_start_chars(cs) ==
    IF cs # <<>> /\ is_whitespace(Head(cs))
    THEN trim_start_chars(Tail(cs))
    ELSE cs

\* str::trim
trim(s) == Utf8(trim_start_chars(trim_end_chars(Chars(s))))

\* Bug variant of saturating_add: the sum wraps around at the width of usize.
wrapping_add(a, b) == (a + b) % (USIZE_MAX + 1)

\* usize::saturating_add
saturating_add(a, b) == IF a + b > USIZE_MAX THEN USIZE_MAX ELSE a + b

\* Option::unwrap_or_default for Option<usize>
unwrap_or_default(o) == IF o = None THEN 0 ELSE o[1]

\* ------------------------------------------------------------------ state
VARIABLES
    text,           \* Blockquote::text, the borrowed &str as UTF-8 bytes
    soft_limit,     \* Blockquote::soft_limit
    hard_limit,     \* Blockquote::hard_limit: Option<usize>
    with_ellipsis,  \* Blockquote::with_ellipsis
    pc,             \* position of the caller / of the running fmt call
    chars,          \* fmt: the `chars` iterator (the bytes not yet decoded)
    character,      \* fmt: the loop variable
    index,          \* fmt: `index`
    stage,          \* fmt: `stage`
    f,              \* the sink: the fragments accepted by write_str, in order
    result,         \* what fmt returned: "none" while running, "Ok", "Err"
    failed,         \* the sink has rejected a write during this call
    how,            \* how the walk ended: "none", "end", "blank", "limit"
    memo            \* a caller's kept copy of a formatter value and the String it rendered to

self == <<text, soft_limit, hard_limit, with_ellipsis>>
locals == <<chars, character, index, stage>>
sink == <<f, result, failed>>
vars == <<text, soft_limit, hard_limit, with_ellipsis, pc, chars, character, index,
          stage, f, result, failed, how, memo>>

\* All input texts of at most MaxLen characters, as UTF-8.
Texts == {Utf8(cs) : cs \in UNION {[1..n -> Alphabet] : n \in 0..MaxLen}}

\* Values handed to the builders.
Limits == (0..MaxLimit) \cup {USIZE_MAX}

\* --------------------------------------------------------- Blockquote impl
\* Bug variant of is_empty: only the empty string counts, whitespace is not trimmed.
is_empty_NoTrim == text = <<>>

\* Blockquote::is_empty
is_empty == text = <<>> \/ trim(text) = <<>>

\* Bug variant of reached_limit: the comparison is strict.
reached_limit_Strict(i, soft) ==
    LET limit == IF soft
                 THEN soft_limit
                 ELSE saturating_add(soft_limit, unwrap_or_default(hard_limit))
    IN i > limit

\* Blockquote::reached_limit
reached_limit(i, soft) ==
    LET limit == IF soft
                 THEN soft_limit
                 ELSE saturating_add(soft_limit, unwrap_or_default(hard_limit))
    IN i >= limit

\* Blockquote::remaining_empty
remaining_empty(i) ==
    LET remaining == get_from(text, i)
    IN IF remaining = None THEN FALSE ELSE trim_end(remaining[1]) = <<>>

\* Formatter::write_str on a sink that accepts the write.
write_str(sk, s) == Append(sk, s)

\* write_char: encode the character and write the encoded slice.
write_char(c, sk) == write_str(sk, encode_utf8(c))

\* No fmt call is running: its locals and its sink are out of scope.
NoCall ==
    /\ pc' = "idle"
    /\ chars' = <<>> /\ character' = 0 /\ index' = 0 /\ stage' = "StartLine"
    /\ f' = <<>> /\ result' = "none" /\ failed' = FALSE /\ how' = "none"

\* Blockquote::new(text)
Init ==
    /\ text \in Texts
    /\ hard_limit = None
    /\ soft_limit = USIZE_MAX
    /\ with_ellipsis = TRUE
    /\ pc = "idle"
    /\ chars = <<>> /\ character = 0 /\ index = 0 /\ stage = "StartLine"
    /\ f = <<>> /\ result = "none" /\ failed = FALSE /\ how = "none"
    /\ memo = None

\* Blockquote::soft_limit(n)
SoftLimit ==
    /\ pc \in {"idle", "done"}
    /\ \E n \in Limits : soft_limit' = n
    /\ UNCHANGED <<text, hard_limit, with_ellipsis, memo>>
    /\ NoCall

\* Blockquote::hard_limit(n)
HardLimit ==
    /\ pc \in {"idle", "done"}
    /\ \E n \in Limits : hard_limit' = Some(n)
    /\ UNCHANGED <<text, soft_limit, with_ellipsis, memo>>
    /\ NoCall

\* Blockquote::with_ellipsis(b)
WithEllipsis ==
    /\ pc \in {"idle", "done"}
    /\ \E b \in BOOLEAN : with_ellipsis' = b
    /\ UNCHANGED <<text, soft_limit, hard_limit, memo>>
    /\ NoCall

\* ------------------------------------------------------------ Display::fmt
\* Bug variant of Reject: the write error is swallowed (`let _ = ...`) and the
\* walk is merely ended, so fmt goes on to the ellipsis and returns Ok.
Reject_Swallowed ==
    /\ failed' = TRUE
    /\ result' = result
    /\ pc' = "tail"
    /\ f' = f

\* The `?` operator on a rejected write: fmt returns the error at once.
Reject ==
    /\ failed' = TRUE
    /\ result' = "Err"
    /\ pc' = "done"
    /\ f' = f

\* fmt is entered with a fresh sink; the is_empty short circuit; the locals.
FmtStart ==
    /\ pc \in {"idle", "done"}
    /\ f' = <<>> /\ failed' = FALSE /\ how' = "none"
    /\ IF is_empty
       THEN /\ result' = "Ok"
            /\ pc' = "done"
            /\ chars' = <<>> /\ character' = 0 /\ index' = 0 /\ stage' = "StartLine"
       ELSE /\ result' = "none"
            /\ chars' = text
            /\ character' = 0
            /\ index' = 0
            /\ stage' = "StartLine"
            /\ pc' = "loop"
    /\ UNCHANGED <<self, memo>>

\* `for character in chars` and the "remaining text is whitespace" break.
LoopHead ==
    /\ pc = "loop"
    /\ IF chars = <<>>
       THEN /\ pc' = "tail"
            /\ how' = "end"
            /\ UNCHANGED <<chars, character>>
       ELSE /\ character' = next_code_point(chars)
            /\ chars' = Skip(chars, utf8_char_width(chars[1]))
            /\ LET text_slice == get_from(text, index)
               IN IF text_slice # None /\ trim_end(text_slice[1]) = <<>>
                  THEN pc' = "tail" /\ how' = "blank"
                  ELSE pc' = "marker" /\ how' = how
    /\ UNCHANGED <<index, stage, f, result, failed>>
    /\ UNCHANGED <<self, memo>>

\* Bug variant of MarkerStep: the limit is looked at first, and no marker is
\* written for a line whose first character is already over the limit.
MarkerStep_AfterLimit ==
    /\ pc = "marker"
    /\ IF stage = "StartLine" /\ ~reached_limit(index, is_whitespace(character))
       THEN \E ok \in BOOLEAN :
              IF ok
              THEN /\ f' = write_str(f, BLOCKQUOTE_LINE)
                   /\ stage' = IF character # NEWLINE THEN "Ongoing" ELSE stage
                   /\ pc' = "limit"
                   /\ UNCHANGED <<result, failed>>
              ELSE Reject /\ UNCHANGED stage
       ELSE /\ pc' = "limit"
            /\ UNCHANGED <<stage, f, result, failed>>
    /\ UNCHANGED <<chars, character, index, how>>
    /\ UNCHANGED <<self, memo>>

\* `if stage == Stage::StartLine { f.write_str(BLOCKQUOTE_LINE)?; ... }`
MarkerStep ==
    /\ pc = "marker"
    /\ IF stage = "StartLine"
       THEN \E ok \in BOOLEAN :
              IF ok
              THEN /\ f' = write_str(f, BLOCKQUOTE_LINE)
                   /\ stage' = IF character # NEWLINE THEN "Ongoing" ELSE stage
                   /\ pc' = "limit"
                   /\ UNCHANGED <<result, failed>>
              ELSE Reject /\ UNCHANGED stage
       ELSE /\ pc' = "limit"
            /\ UNCHANGED <<stage, f, result, failed>>
    /\ UNCHANGED <<chars, character, index, how>>
    /\ UNCHANGED <<self, memo>>

\* `if self.reached_limit(index, character.is_whitespace()) { break; }`
LimitStep ==
    /\ pc = "limit"
    /\ IF reached_limit(index, is_whitespace(character))
       THEN pc' = "tail" /\ how' = "limit"
       ELSE pc' = "emit" /\ how' = how
    /\ UNCHANGED <<locals, sink>>
    /\ UNCHANGED <<self, memo>>

\* Bug variant of EmitStep: the index advances by the character's byte length.
EmitStep_ByteIndex ==
    /\ pc = "emit"
    /\ \E ok \in BOOLEAN :
         IF ok
         THEN /\ f' = write_char(character, f)
              /\ index' = index + len_utf8(character)
              /\ stage' = IF character = NEWLINE THEN "StartLine" ELSE stage
              /\ pc' = "loop"
              /\ UNCHANGED <<result, failed>>
         ELSE Reject /\ UNCHANGED <<index, stage>>
    /\ UNCHANGED <<chars, character, how>>
    /\ UNCHANGED <<self, memo>>

\* `write_char(character, f)?; index += 1; if character == NEWLINE {...}`
EmitStep ==
    /\ pc = "emit"
    /\ \E ok \in BOOLEAN :
         IF ok
         THEN /\ f' = write_char(character, f)
              /\ index' = index + 1
              /\ stage' = IF character = NEWLINE THEN "StartLine" ELSE stage
              /\ pc' = "loop"
              /\ UNCHANGED <<result, failed>>
         ELSE Reject /\ UNCHANGED <<index, stage>>
    /\ UNCHANGED <<chars, character, how>>
    /\ UNCHANGED <<self, memo>>

\* Bug variant of TailStep: writing the ellipsis switches with_ellipsis off
\* (fmt keeping state in the formatter value).
TailStep_ClearsEllipsis ==
    /\ pc = "tail"
    /\ IF with_ellipsis /\ ~remaining_empty(index)
       THEN \E ok \in BOOLEAN :
              IF ok
              THEN /\ f' = write_char(ELLIPSIS, f)
                   /\ result' = "Ok"
                   /\ pc' = "done"
                   /\ with_ellipsis' = FALSE
                   /\ UNCHANGED failed
              ELSE Reject /\ UNCHANGED with_ellipsis
       ELSE /\ result' = "Ok"
            /\ pc' = "done"
            /\ UNCHANGED <<f, failed, with_ellipsis>>
    /\ UNCHANGED <<locals, how>>
    /\ UNCHANGED <<text, soft_limit, hard_limit, memo>>

\* After the loop: the ellipsis, then Ok(()).
TailStep ==
    /\ pc = "tail"
    /\ IF with_ellipsis /\ ~remaining_empty(index)
       THEN \E ok \in BOOLEAN :
              IF ok
              THEN /\ f' = write_char(ELLIPSIS, f)
                   /\ result' = "Ok"
                   /\ pc' = "done"
                   /\ UNCHANGED failed
              ELSE Reject
       ELSE /\ result' = "Ok"
            /\ pc' = "done"
            /\ UNCHANGED <<f, failed>>
    /\ UNCHANGED <<locals, how>>
    /\ UNCHANGED <<self, memo>>

Next ==
    \/ SoftLimit
    \/ HardLimit
    \/ WithEllipsis
    \/ FmtStart
    \/ LoopHead
    \/ MarkerStep
    \/ LimitStep
    \/ EmitStep
    \/ TailStep

Spec == Init /\ [][Next]_vars

\* --------------------------------------------------- rendering a value twice
\* Longest input text, in characters, of the runs that keep a rendered String.
MaxLenTwice == 2

\* `let s = formatter.to_string();` the caller keeps the String a finished
\* render produced, together with a copy of the (Copy) formatter value.
Remember ==
    /\ pc = "done"
    /\ result = "Ok"
    /\ memo' = Some([value |-> self, out |-> f])
    /\ UNCHANGED <<self, pc, locals, sink, how>>

\* The characters of those runs' texts: '\n', 'a' and U+00E9.
AlphabetTwice == {10, 97, 233}

InitTwice ==
    /\ Init
    /\ Len(Chars(text)) <= MaxLenTwice
    /\ \A i \in 1..Len(Chars(text)) : Chars(text)[i] \in AlphabetTwice

NextTwice == Next \/ Remember

SpecTwice == InitTwice /\ [][NextTwice]_vars

\* ------------------------------------------------- vocabulary of the claims
\* The characters of the input text, and their number.
T == Chars(text)
N == Len(T)

\* The fragment write_char hands to the sink for the ellipsis.
EllipsisFrag == encode_utf8(ELLIPSIS)

\* A fragment that carries an input character (no text of the model holds the
\* ellipsis, and the marker is the only two-byte ASCII fragment).
IsCharFrag(x) == x # BLOCKQUOTE_LINE /\ x # EllipsisFrag

\* The input characters the sink holds, in order, and how many they are.
Emitted == SelectSeq(f, IsCharFrag)
EmittedCount == Len(Emitted)

\* Position (1-based, in characters) of the last non-whitespace character, 0 if none.
LastNonWs ==
    LET S == {i \in 1..N : ~is_whitespace(T[i])}
    IN IF S = {} THEN 0 ELSE CHOOSE i \in S : \A j \in S : j <= i

\* The text is empty or holds whitespace only.
AllWhitespace == \A i \in 1..N : is_whitespace(T[i])

\* A multi-byte character is among the first n characters of the text.
MultiByteWithin(n) == \E i \in 1..n : i <= N /\ len_utf8(T[i]) > 1

\* A render has returned Ok.
Rendered == pc = "done" /\ result = "Ok"

\* C1: render appends the ellipsis iff with_ellipsis is enabled and at least
\* one non-whitespace character of the text was not emitted; the ellipsis is
\* appended at most once and only as the last fragment of the output.
C1_EllipsisIff ==
    Rendered =>
        LET ends == f # <<>> /\ f[Len(f)] = EllipsisFrag
            count == Cardinality({i \in DOMAIN f : f[i] = EllipsisFrag})
        IN /\ ends <=> (with_ellipsis /\ EmittedCount < LastNonWs)
           /\ count <= 1
           /\ count = 1 => ends

\* C2: render emits no input character that lies after the text's last
\* non-whitespace character (trailing whitespace never reaches the output).
C2_NoTrailingWhitespace == EmittedCount <= LastNonWs

\* C3: is_empty() is true iff the text is empty or only whitespace; a render's
\* output is empty exactly when is_empty() is true, and begins with the marker
\* "> " whenever is_empty() is false, under every configuration.
C3_EmptyAgreement ==
    /\ is_empty <=> AllWhitespace
    /\ Rendered =>
         /\ (f = <<>>) <=> is_empty
         /\ ~is_empty => f[1] = BLOCKQUOTE_LINE

\* C3's case: a non-empty text rendered with soft_limit 0 starts with the marker.
C3_Witness ==
    /\ Rendered
    /\ ~is_empty
    /\ soft_limit = 0
    /\ f # <<>> /\ f[1] = BLOCKQUOTE_LINE

\* C4: in a non-empty render output there is one marker at the very start, one
\* marker right after every emitted newline, and a marker nowhere else.
C4_MarkerEveryLine ==
    (Rendered /\ f # <<>>) =>
        /\ f[1] = BLOCKQUOTE_LINE
        /\ \A i \in DOMAIN f :
             /\ f[i] = <<NEWLINE>> => (i < Len(f) /\ f[i + 1] = BLOCKQUOTE_LINE)
             /\ f[i] = BLOCKQUOTE_LINE => (i = 1 \/ f[i - 1] = <<NEWLINE>>)

\* The cutoff the claims state: soft_limit + hard_limit (0 when absent),
\* saturating at the largest usize.
Cutoff ==
    LET h == IF hard_limit = None THEN 0 ELSE hard_limit[1]
    IN IF soft_limit + h > USIZE_MAX THEN USIZE_MAX ELSE soft_limit + h

\* C5: the cutoff applied to a non-whitespace character is S + H, saturating
\* and never wrapping: no input character with index >= cutoff is emitted, and
\* a non-whitespace character with index below the cutoff is never stopped by
\* the limit check.
C5_AdditiveCutoff ==
    /\ EmittedCount <= Cutoff
    /\ (how = "limit" /\ ~is_whitespace(character)) => index >= Cutoff

\* C5's case: S + H overflows usize, and a non-whitespace character beyond
\* index S was emitted all the same.
C5_Witness ==
    /\ Rendered
    /\ hard_limit = Some(USIZE_MAX)
    /\ soft_limit \in 1..MaxLimit
    /\ EmittedCount > soft_limit
    /\ ~is_whitespace(T[EmittedCount])

\* The limit rule at the character at 1-based position p (index p - 1).
StopsAt(p) ==
    IF is_whitespace(T[p]) THEN p - 1 >= soft_limit ELSE p - 1 >= Cutoff

\* C6: a walk stopped by a limit stops at the first character position i (in
\* characters) where the character is whitespace and i >= soft_limit, or is
\* non-whitespace and i >= soft_limit + hard_limit; every character before i
\* is emitted.
C6_FirstStop ==
    how = "limit" =>
        /\ index < N
        /\ StopsAt(index + 1)
        /\ \A p \in 1..index : ~StopsAt(p)
        /\ Emitted = [i \in 1..index |-> encode_utf8(T[i])]

\* C6's case: a word with a multi-byte character straddles the soft limit and
\* is completed, the walk stopping at the whitespace that follows it.
C6_Witness ==
    /\ Rendered
    /\ how = "limit"
    /\ index > soft_limit
    /\ is_whitespace(T[index + 1])
    /\ MultiByteWithin(index)

\* C7: when the sink rejects a write, fmt returns the error at once and writes
\* nothing more (not even the ellipsis); what was written before stays in the
\* sink; a render whose writes all succeed returns Ok.
C7_SinkFailure ==
    /\ [](/\ failed => (pc = "done" /\ result = "Err")
          /\ result = "Err" => failed
          /\ (pc = "done" /\ ~failed) => result = "Ok")
    /\ [][(failed' /\ ~failed) => f' = f]_vars

\* C7's case: a character write was rejected after the marker and a character
\* had been written, with an ellipsis still due; the sink holds no ellipsis.
C7_Witness ==
    /\ failed
    /\ pc = "done"
    /\ result = "Err"
    /\ Len(f) >= 2
    /\ with_ellipsis
    /\ EmittedCount < LastNonWs
    /\ f[Len(f)] # EllipsisFrag

\* C8: render leaves text, soft_limit, hard_limit and with_ellipsis unchanged,
\* and a formatter value renders to the same output as it did before, whatever
\* other values were rendered in between.
C8_Pure ==
    /\ []((Rendered /\ memo # None /\ memo[1].value = self) => f = memo[1].out)
    /\ [][pc' # "idle" => self' = self]_vars

\* C8's case: a value whose render was cut by the limit (marker, character,
\* ellipsis) was kept with its output, and that value has been rendered again.
C8_Witness ==
    /\ Rendered
    /\ memo # None
    /\ memo[1].value = self
    /\ how = "limit"
    /\ with_ellipsis
    /\ Len(f) >= 3
    /\ f[Len(f)] = EllipsisFrag

\* The walk stands at the first character of a line.
LineStart == index = 0 \/ (index <= N /\ T[index] = NEWLINE)

\* C9: when the limit is reached at the first character of a line, the output
\* ends with the marker followed by the ellipsis (with_ellipsis enabled) or by
\* nothing (disabled); no character of that line is emitted.
C9_MarkerBeforeLimit ==
    (Rendered /\ how = "limit" /\ LineStart) =>
        LET n == Len(f)
        IN IF with_ellipsis
           THEN n >= 2 /\ f[n] = EllipsisFrag /\ f[n - 1] = BLOCKQUOTE_LINE
           ELSE n >= 1 /\ f[n] = BLOCKQUOTE_LINE

\* C9's case: soft_limit 0, no hard limit, a non-empty text: marker and ellipsis.
C9_Witness ==
    /\ Rendered
    /\ how = "limit"
    /\ soft_limit = 0
    /\ hard_limit = None
    /\ ~is_empty
    /\ f = <<BLOCKQUOTE_LINE, EllipsisFrag>>

\* C10: the output without the markers and the final ellipsis is a contiguous
\* prefix of the input, character by character, and index always equals the
\* number of input characters emitted so far.
C10_ContiguousPrefix ==
    /\ index = EmittedCount
    /\ index <= N
    /\ Emitted = [i \in 1..index |-> encode_utf8(T[i])]

\* C10's case: a render over two lines that emitted a multi-byte character.
C10_Witness ==
    /\ Rendered
    /\ index >= 2
    /\ MultiByteWithin(index)
    /\ \E i \in 2..Len(f) : f[i] = BLOCKQUOTE_LINE

====
